---- MODULE Spec2Model ----
(***************************************************************************)
(* The infinite-canvas whiteboard: view controller (useWhiteboardView),    *)
(* canvas gesture recognizer (useWhiteboardGestures), item store           *)
(* (useWhiteboardItems), card wrapper (CardWrapper), card focus controller *)
(* (useCardFocus) and their composition in WhiteboardLayout.               *)
(*                                                                         *)
(* Numbers.  Lengths are whole CSS pixels, scales are thousandths          *)
(* (1000 = scale 1.0), rotations are tenths of a degree, durations are     *)
(* milliseconds.  Every JavaScript floating-point quotient is a RoundDiv,  *)
(* taken in the order in which the code divides.                           *)
(*                                                                         *)
(* React.  A handler is a closure created by a render: it reads the state  *)
(* of that render (the record "rendered") and queues updates; the state    *)
(* variables hold the state with every queued update applied, and Render   *)
(* commits it, so handlers that run between two renders read the same      *)
(* rendered values.                                                        *)
(***************************************************************************)
EXTENDS Integers, Sequences, FiniteSets, TLC

VARIABLES
  window,          \* [innerWidth, innerHeight]
  uaMobile,        \* navigator.userAgent matches the mobile pattern
  hover,           \* the mouse pointer: the element it is over (Outside, Canvas or a card) and where
  pressed,         \* mouse buttons currently held
  touching,        \* a finger is on the screen
  content,         \* the content props and the Math.random outcomes: [n, seed]
  measureNodes,    \* measurement containers attached to document.body
  mounted,         \* the passive effects of the first commit have run
  dirty,           \* a state update is queued and not yet rendered
  rendered,        \* the state as of the last render (what closures and the DOM hold)
  autoFocus,       \* Whiteboard: the auto-focus effect (latch, timer, closure, calls made)
  transform,       \* useWhiteboardView: transform
  transformSet,    \* setTransform was called since the last render
  isTransitioning, \* useWhiteboardView: isTransitioning
  transitionTimers,\* pending timers set by updateTransform: the ms left of each
  lastAnimated,    \* the last animated updateTransform: ms since, timers it found pending
  lastCallAge,     \* throttle: Date.now() - lastCall, capped at ThrottleDelay
  rafQueue,        \* requestAnimationFrame callbacks queued by initializeView
  zoomFitTimers,   \* pending setTimeout(onZoomToFit) of handleExpand
  isDragging,      \* useWhiteboardGestures: isDragging
  lastMousePos,    \* useWhiteboardGestures: lastMousePos
  items,           \* useWhiteboardItems: items (sequence of position records)
  itemsSet,        \* setItems was called since the last render
  dragging,        \* useWhiteboardItems: dragging
  dragState,       \* useWhiteboardItems: dragState.current
  listening,       \* window mousemove/mouseup listeners of the drag are registered
  longPressTimeout,\* CardWrapper: longPressTimeout state, per card (timer id or NoTimer)
  isInteracting,   \* CardWrapper: isInteracting state, per card
  longPressTimers, \* pending long-press timers: records [id, card, left]
  nextTimerId,     \* next setTimeout handle
  navigatedTo,     \* item whose detail route was last navigated to (NoItem: none)
  currentIndex,    \* useCardFocus: currentIndex
  fault,           \* an uncaught exception was raised by a handler
  steps,           \* number of input events handled so far
  lastOp,          \* the last input event or callback run
  dragOrigin       \* pointer and item position when the current drag began

envVars   == <<window, uaMobile, hover, pressed, touching, content, measureNodes>>
reactVars == <<mounted, dirty, rendered, autoFocus>>
viewVars  == <<transform, transformSet, isTransitioning, transitionTimers, lastAnimated, lastCallAge, rafQueue,
               zoomFitTimers>>
gestVars  == <<isDragging, lastMousePos>>
itemVars  == <<items, itemsSet, dragging, dragState, listening>>
cardVars  == <<longPressTimeout, isInteracting, longPressTimers, nextTimerId, navigatedTo>>
histVars  == <<fault, steps, lastOp, dragOrigin>>
vars == <<envVars, reactVars, viewVars, gestVars, itemVars, cardVars, currentIndex, histVars>>

----------------------------------------------------------------------------
(* Bounds of the model *)
MaxSteps == 2

(* Program constants *)
ScaleUnit == 1000
SCALES_MIN == 100
SCALES_INITIAL == 300
SCALES_MAX == 2000
STICKY_NOTE_WIDTH == 280
STICKY_NOTE_HEIGHT == 320
STICKY_NOTE_MIN_WIDTH == 120
STICKY_NOTE_MIN_HEIGHT == 120
STICKY_NOTE_MAX_WIDTH == 500
STICKY_NOTE_MAX_HEIGHT == 800
TransitionMs == 1300
ThrottleDelay == 16
MobileBreakpoint == 768
SmBreakpoint == 640
ZoomFitDelay == 400
LongPressMs == 1000
FocusZoomMobile == 1200
FocusZoomDesktop == 1500
InitViewScaleMobile == 500
InitViewScaleDesktop == 300
ZoomButtonMaxScale == 1500

NoTimer == -1
\* no animated update within the last TransitionMs
NoAnimation == [since |-> TransitionMs, pending |-> {}]

\* the auto-focus effect before it has run: hasAutoFocusedRef is false and no
\* timer is set; "seen" is the closure of the timer callback
NoAutoFocus == [latched |-> FALSE, timer |-> NoTimer, seen |-> [items |-> << >>, isMobile |-> FALSE],
                calls |-> 0, due |-> FALSE]
NoItem == 0
Outside == -1
Canvas == 0

----------------------------------------------------------------------------
(* Arithmetic *)
Min(a, b) == IF a < b THEN a ELSE b
Max(a, b) == IF a > b THEN a ELSE b
Abs(a) == IF a < 0 THEN -a ELSE a

\* a / b in floating point, to the nearest unit of the fixed-point scale
RoundDiv(a, b) == (2 * a + b) \div (2 * b)

\* JavaScript % : the result takes the sign of the dividend; x % 0 and NaN % n are NaN
NaN == -1000000
JsRem(a, n) ==
  IF n = 0 \/ a = NaN THEN NaN
  ELSE IF a >= 0 THEN a % n ELSE -((-a) % n)

\* Math.ceil(Math.sqrt(n))
CeilSqrt(n) == CHOOSE c \in 0..n : c * c >= n /\ (c = 0 \/ (c - 1) * (c - 1) < n)

\* Math.ceil(a / b) for a >= 0, b > 0
CeilDiv(a, b) == (a + b - 1) \div b

Point(px, py) == [x |-> px, y |-> py]

----------------------------------------------------------------------------
(* Faulty variants of definitions of the model; a property that is sensitive
   to a definition fails when the variant takes its place *)

\* clampScale without the lower bound
clampScale_NoMin(scale, minScale, maxScale) == Min(scale, maxScale)

----------------------------------------------------------------------------
(* Transform model *)

clampScale(scale, minScale, maxScale) == Min(Max(scale, minScale), maxScale)

computeInitialTransform == [x |-> 0, y |-> 0, scale |-> SCALES_INITIAL]

IsMobile(ua, win) == ua \/ win.innerWidth <= MobileBreakpoint

\* faulty variant of ClampTransform: x and y pass through unclamped
ClampTransform_NoPanBox(t, win) ==
  [x |-> t.x, y |-> t.y, scale |-> clampScale(t.scale, SCALES_MIN, SCALES_MAX)]

\* the updater passed to setTransform: pan box of two viewports, clamped scale
ClampTransform(t, win) ==
  LET maxPanX == win.innerWidth * 2
      maxPanY == win.innerHeight * 2
  IN [x |-> Max(-maxPanX, Min(maxPanX, t.x)),
      y |-> Max(-maxPanY, Min(maxPanY, t.y)),
      scale |-> clampScale(t.scale, SCALES_MIN, SCALES_MAX)]

\* faulty variant of clearTransitionTimeout: the pending timer is left running
clearTransitionTimeout_Never(timers) == timers

\* if (transitionTimeoutRef.current) clearTimeout(transitionTimeoutRef.current):
\* the ref holds the handle of the timer set last, which of the pending timers
\* is the one with the most time left
clearTransitionTimeout(timers) ==
  IF timers = {} THEN {}
  ELSE timers \ {CHOOSE newest \in timers : \A left \in timers : left <= newest}

\* updateTransform(transformUpdate, animate); win is the window at apply time
updateTransform(win, newTransform, animate) ==
  /\ transform' = ClampTransform(newTransform, win)
  /\ transformSet' = TRUE
  /\ IF animate
       THEN /\ isTransitioning' = TRUE
            /\ transitionTimers' = clearTransitionTimeout(transitionTimers) \cup {TransitionMs}
            /\ lastAnimated' = [since |-> 0, pending |-> transitionTimers]
       ELSE UNCHANGED <<isTransitioning, transitionTimers, lastAnimated>>

\* throttle(func, 16): the call goes through unless less than 16 ms have passed
\* since the last call that went through
ThrottleOpen == lastCallAge >= ThrottleDelay

throttledUpdateTransform(win, newTransform, animate) ==
  IF ThrottleOpen
    THEN lastCallAge' = 0 /\ updateTransform(win, newTransform, animate)
    ELSE UNCHANGED <<transform, transformSet, isTransitioning, transitionTimers, lastAnimated, lastCallAge>>

\* effectiveUpdateTransform of the render whose isMobile is "mobile"
effectiveUpdateTransform(mobile, win, newTransform, animate) ==
  IF mobile
    THEN throttledUpdateTransform(win, newTransform, animate)
    ELSE updateTransform(win, newTransform, animate) /\ UNCHANGED lastCallAge

\* the call reaches setTransform
Applied(mobile) == ~mobile \/ ThrottleOpen

\* the transform handleZoom hands to effectiveUpdateTransform; "seen" is the
\* transform of the closure
ZoomTarget(seen, newScale, focal, win) ==
  LET centerX == RoundDiv(win.innerWidth, 2)
      centerY == RoundDiv(win.innerHeight, 2)
      offsetX == focal.x - centerX
      offsetY == focal.y - centerY
      scaleFactor == RoundDiv(newScale * ScaleUnit, seen.scale)
      inverse == RoundDiv(ScaleUnit * ScaleUnit, scaleFactor)
  IN [x |-> seen.x - RoundDiv(RoundDiv(offsetX * ScaleUnit, seen.scale) * (ScaleUnit - inverse), ScaleUnit),
      y |-> seen.y - RoundDiv(RoundDiv(offsetY * ScaleUnit, seen.scale) * (ScaleUnit - inverse), ScaleUnit),
      scale |-> newScale]

\* handleWheel with ctrl/meta: the scale requested for a wheel delta
WheelZoomScale(seen, deltaY) ==
  clampScale(RoundDiv(seen.scale * (2000 - deltaY), 2000), SCALES_MIN, SCALES_MAX)

\* faulty variant of WheelPanTarget: the pan speed does not depend on the scale
WheelPanTarget_Unscaled(seen, prev, deltaX, deltaY) ==
  [x |-> seen.x - RoundDiv(deltaX * 25, 10),
   y |-> seen.y - RoundDiv(deltaY * 25, 10),
   scale |-> prev.scale]

\* handleWheel without modifier: x and y are computed from the closure's
\* transform, the scale is taken from prev inside the updater
WheelPanTarget(seen, prev, deltaX, deltaY) ==
  [x |-> seen.x - RoundDiv(deltaX * 2500, seen.scale),
   y |-> seen.y - RoundDiv(deltaY * 2500, seen.scale),
   scale |-> prev.scale]

\* faulty variant of ZoomInScale: a step of 1.1
ZoomInScale_SmallStep(seen) == clampScale(RoundDiv(seen.scale * 11, 10), SCALES_MIN, SCALES_MAX)

ZoomInScale(seen) == clampScale(RoundDiv(seen.scale * 12, 10), SCALES_MIN, SCALES_MAX)
ZoomOutScale(seen) == clampScale(RoundDiv(seen.scale * 10, 12), SCALES_MIN, SCALES_MAX)

ViewportCenter(win) == Point(RoundDiv(win.innerWidth, 2), RoundDiv(win.innerHeight, 2))

----------------------------------------------------------------------------
(* Item layout and content-aware sizing *)

\* the k-th value of Math.random() in thousandths, for one of the outcomes
\* the model draws from
Draw(seed, k) ==
  CASE seed = 0 -> 0
    [] seed = 1 -> 980
    [] OTHER -> (k * 619 + 311) % 1000

\* faulty variant of gridStart: the half spacing is left out, so the grid's
\* first cell, not the grid, is centred on the origin's left/top edge
gridStart_NoHalfSpacing(gridExtent, spacing) == RoundDiv(-gridExtent, 2)

\* startX / startY: -gridWidth / 2 + (spacing / 2)
gridStart(gridExtent, spacing) == RoundDiv(-gridExtent, 2) + RoundDiv(spacing, 2)

\* calculateInitialLayout(items, columns) for n items; positions are 1-based
\* here, z is the 0-based array index
calculateInitialLayoutColumns(n, columns, seed) ==
  LET spacing == 450
      jitterRange == 50
      gridWidth == columns * spacing
      gridHeight == CeilDiv(n, columns) * spacing
      startX == gridStart(gridWidth, spacing)
      startY == gridStart(gridHeight, spacing)
  IN [i \in 1..n |->
       LET index == i - 1
           row == index \div columns
           col == index % columns
           jitterX == RoundDiv((Draw(seed, 3 * index) - 500) * jitterRange, 1000)
           jitterY == RoundDiv((Draw(seed, 3 * index + 1) - 500) * jitterRange, 1000)
           rotation == RoundDiv((Draw(seed, 3 * index + 2) - 500) * 50, 1000)
       IN [x |-> startX + col * spacing + jitterX,
           y |-> startY + row * spacing + jitterY,
           z |-> index,
           width |-> STICKY_NOTE_WIDTH,
           height |-> STICKY_NOTE_HEIGHT,
           expanded |-> FALSE,
           rotation |-> rotation]]

\* calculateInitialLayout(items): columns defaults to Math.ceil(Math.sqrt(items.length))
calculateInitialLayout(n, seed) == calculateInitialLayoutColumns(n, CeilSqrt(n), seed)

\* updateItemZIndex(items, itemId)
updateItemZIndex(its, itemId) ==
  LET maxZ == CHOOSE m \in {its[i].z : i \in DOMAIN its} : \A i \in DOMAIN its : its[i].z <= m
  IN [i \in DOMAIN its |-> [its[i] EXCEPT !.z = IF i = itemId THEN maxZ + 1 ELSE @]]

\* faulty variant of measureContentHeight: requiredHeight is not capped at
\* STICKY_NOTE.MAX_HEIGHT
measureContentHeight_NoMaxHeight(m) ==
  IF ~m.element \/ ~m.container
    THEN [requiredHeight |-> STICKY_NOTE_HEIGHT, requiredWidth |-> STICKY_NOTE_WIDTH,
          hasOverflow |-> FALSE]
    ELSE LET requiredTotalHeight == Max(m.naturalHeight + 16 + 48, STICKY_NOTE_MIN_HEIGHT)
             requiredWidth == Max(Min(m.naturalWidth + 32, STICKY_NOTE_MAX_WIDTH),
                                  STICKY_NOTE_MIN_WIDTH)
         IN [requiredHeight |-> requiredTotalHeight,
             requiredWidth |-> requiredWidth,
             hasOverflow |-> requiredTotalHeight > STICKY_NOTE_HEIGHT \/ requiredWidth > STICKY_NOTE_WIDTH]

\* measureContentHeight(cardElement); m describes the card's DOM:
\* [element, container, naturalHeight, naturalWidth, preLength, textLength, throws]
measureContentHeight(m) ==
  IF ~m.element \/ ~m.container
    THEN [requiredHeight |-> STICKY_NOTE_HEIGHT, requiredWidth |-> STICKY_NOTE_WIDTH,
          hasOverflow |-> FALSE]
    ELSE LET BUTTON_SPACING == 48
             CARD_PADDING == 32
             CONTENT_MARGIN == 16
             requiredContentHeight == m.naturalHeight + CONTENT_MARGIN
             requiredTotalHeight == Max(requiredContentHeight + BUTTON_SPACING, STICKY_NOTE_MIN_HEIGHT)
             requiredWidth == Max(Min(m.naturalWidth + CARD_PADDING, STICKY_NOTE_MAX_WIDTH),
                                  STICKY_NOTE_MIN_WIDTH)
         IN [requiredHeight |-> Min(requiredTotalHeight, STICKY_NOTE_MAX_HEIGHT),
             requiredWidth |-> requiredWidth,
             hasOverflow |-> requiredTotalHeight > STICKY_NOTE_HEIGHT \/ requiredWidth > STICKY_NOTE_WIDTH]

\* estimateContentComplexity(cardElement).isTextHeavy
isTextHeavy(m) == m.preLength > 200 \/ m.textLength > 400

\* calculateOptimalSize(cardElement, isCurrentlyExpanded)
calculateOptimalSize(m, isCurrentlyExpanded) ==
  IF isCurrentlyExpanded
    THEN [width |-> STICKY_NOTE_WIDTH, height |-> STICKY_NOTE_HEIGHT]
    ELSE LET measurement == measureContentHeight(m)
         IN IF isTextHeavy(m)
              THEN [width |-> Min(RoundDiv(STICKY_NOTE_WIDTH * 16, 10), STICKY_NOTE_MAX_WIDTH),
                    height |-> Max(Max(measurement.requiredHeight, STICKY_NOTE_HEIGHT * 2),
                                   Min(RoundDiv(m.textLength * 12, 10), STICKY_NOTE_MAX_HEIGHT))]
              ELSE IF measurement.hasOverflow
                THEN [width |-> measurement.requiredWidth, height |-> measurement.requiredHeight]
                ELSE [width |-> RoundDiv(STICKY_NOTE_WIDTH * 14, 10),
                      height |-> RoundDiv(STICKY_NOTE_HEIGHT * 14, 10)]

\* faulty variant of ExpandDimensions: the item's expanded flag is ignored and
\* a collapse is sized like an expand
ExpandDimensions_IgnoresState(m, isExpanded) ==
  IF m.element /\ ~m.throws
    THEN calculateOptimalSize(m, FALSE)
    ELSE [width |-> RoundDiv(STICKY_NOTE_WIDTH * 15, 10),
          height |-> RoundDiv(STICKY_NOTE_HEIGHT * 15, 10)]

\* faulty variant of ExpandDimensions: without a measurement the item gets the
\* default size
ExpandDimensions_DefaultFallback(m, isExpanded) ==
  IF m.element /\ ~(m.throws /\ ~isExpanded)
    THEN calculateOptimalSize(m, isExpanded)
    ELSE [width |-> STICKY_NOTE_WIDTH, height |-> STICKY_NOTE_HEIGHT]

\* the dimensions handleExpand assigns: the fixed fallback, replaced by the
\* content-aware size when a card element is supplied and measuring does not throw
ExpandDimensions(m, isExpanded) ==
  LET fallback == [width |-> IF isExpanded THEN STICKY_NOTE_WIDTH ELSE RoundDiv(STICKY_NOTE_WIDTH * 15, 10),
                   height |-> IF isExpanded THEN STICKY_NOTE_HEIGHT ELSE RoundDiv(STICKY_NOTE_HEIGHT * 15, 10)]
  IN IF m.element /\ ~(m.throws /\ ~isExpanded)
       THEN calculateOptimalSize(m, isExpanded)
       ELSE fallback

----------------------------------------------------------------------------
(* Inputs the model draws from *)

Viewports == {[innerWidth |-> 1280, innerHeight |-> 800],
              [innerWidth |-> 700, innerHeight |-> 800],
              [innerWidth |-> 320, innerHeight |-> 568]}

\* pointer positions: the viewport centre and a point left of and above it
ClientPoints(win) == {Point(RoundDiv(win.innerWidth, 2), RoundDiv(win.innerHeight, 2)),
                      Point(RoundDiv(win.innerWidth, 4), RoundDiv(win.innerHeight, 4))}

WheelPans == {<<100, 0>>, <<0, -100>>}
WheelZooms == {-1000, 1000}

NoMeasurement == [element |-> FALSE, container |-> FALSE, naturalHeight |-> 0, naturalWidth |-> 0,
                  preLength |-> 0, textLength |-> 0, throws |-> FALSE]
ShortCard == [element |-> TRUE, container |-> TRUE, naturalHeight |-> 150, naturalWidth |-> 200,
              preLength |-> 0, textLength |-> 80, throws |-> FALSE]
TallCard == [element |-> TRUE, container |-> TRUE, naturalHeight |-> 900, naturalWidth |-> 468,
             preLength |-> 100, textLength |-> 300, throws |-> FALSE]
CodeCard == [element |-> TRUE, container |-> TRUE, naturalHeight |-> 400, naturalWidth |-> 468,
             preLength |-> 700, textLength |-> 900, throws |-> FALSE]
BareCard == [element |-> TRUE, container |-> FALSE, naturalHeight |-> 0, naturalWidth |-> 0,
             preLength |-> 0, textLength |-> 20, throws |-> FALSE]
ThrowingCard == [ShortCard EXCEPT !.throws = TRUE]
Measurements == {NoMeasurement, ShortCard, TallCard, CodeCard, BareCard, ThrowingCard}

----------------------------------------------------------------------------
(* React: state after the first commit, renders, effects *)

NoDrag == [itemId |-> NoItem, initialMousePos |-> Point(0, 0), initialItemPos |-> Point(0, 0),
           offset |-> Point(0, 0)]
NoOp == [name |-> "mount", id |-> NoItem, pos |-> Point(0, 0), applied |-> FALSE]
Op(name, id, pos, applied) == [name |-> name, id |-> id, pos |-> pos, applied |-> applied]
NoOrigin == [client |-> Point(0, 0), position |-> Point(0, 0), scale |-> 0, center |-> Point(0, 0),
             maxZ |-> 0, away |-> FALSE, sameView |-> TRUE]

Snapshot ==
  [transform |-> transform,
   isMobile |-> IsMobile(uaMobile, window),
   isDragging |-> isDragging,
   lastMousePos |-> lastMousePos,
   items |-> items,
   currentIndex |-> currentIndex,
   longPressTimeout |-> longPressTimeout,
   isInteracting |-> isInteracting]

\* The first render has happened and its layout effect has run centerView(false)
\* and registered the resize listener; the passive effects are still to run.
InitWith(Contents) ==
  /\ window \in Viewports
  /\ uaMobile \in BOOLEAN
  /\ uaMobile => window.innerWidth <= MobileBreakpoint
  /\ content \in Contents
  /\ hover \in {[over |-> Canvas, at |-> pos] : pos \in ClientPoints(window)}
  /\ pressed = {}
  /\ touching = FALSE
  /\ measureNodes = 0
  /\ mounted = FALSE
  /\ dirty = TRUE
  /\ autoFocus = NoAutoFocus
  /\ transform = ClampTransform(computeInitialTransform, window)
  /\ transformSet = TRUE
  /\ isTransitioning = FALSE
  /\ transitionTimers = {}
  /\ lastAnimated = NoAnimation
  /\ lastCallAge = IF IsMobile(uaMobile, window) THEN 0 ELSE ThrottleDelay
  /\ rafQueue = << >>
  /\ zoomFitTimers = {}
  /\ isDragging = FALSE
  /\ lastMousePos = Point(0, 0)
  /\ items = << >>
  /\ itemsSet = FALSE
  /\ dragging = NoItem
  /\ dragState = NoDrag
  /\ listening = FALSE
  /\ longPressTimeout = [c \in 1..content.n |-> NoTimer]
  /\ isInteracting = [c \in 1..content.n |-> FALSE]
  /\ longPressTimers = {}
  /\ nextTimerId = 1
  /\ navigatedTo = NoItem
  /\ currentIndex = 0
  /\ fault = FALSE
  /\ steps = 0
  /\ lastOp = NoOp
  /\ dragOrigin = NoOrigin
  /\ rendered = [transform |-> computeInitialTransform,
                 isMobile |-> IsMobile(uaMobile, window),
                 isDragging |-> FALSE,
                 lastMousePos |-> Point(0, 0),
                 items |-> << >>,
                 currentIndex |-> 0,
                 longPressTimeout |-> [c \in 1..content.n |-> NoTimer],
                 isInteracting |-> [c \in 1..content.n |-> FALSE]]

\* the passive effects of the first commit: initializeItems and initializeView
MountEffects ==
  /\ ~mounted
  /\ mounted' = TRUE
  /\ items' = calculateInitialLayout(content.n, content.seed)
  /\ itemsSet' = TRUE
  /\ rafQueue' = Append(rafQueue, rendered.isMobile)
  /\ dirty' = TRUE
  /\ UNCHANGED <<envVars, rendered, autoFocus, transform, transformSet, isTransitioning, transitionTimers, lastAnimated, lastCallAge,
                 zoomFitTimers, gestVars, dragging, dragState, listening, cardVars,
                 currentIndex, histVars>>

\* the dependencies [items.length, focusOnCard, isMobile] of the auto-focus
\* effect differ between the last render and the one being committed:
\* focusOnCard is a new function when items or the transform were set
AutoFocusDepsChanged ==
  itemsSet \/ transformSet \/ Snapshot.isMobile # rendered.isMobile

\* A render commits the queued updates.  When isMobile differs from the last
\* render, effectiveUpdateTransform and centerView are new functions, so the
\* layout effect runs centerView(false) again and initializeView queues a frame.
\* The auto-focus effect is left to run when its dependencies changed.
Render ==
  /\ dirty
  /\ rendered' = Snapshot
  /\ itemsSet' = FALSE
  /\ autoFocus' = [autoFocus EXCEPT !.due = @ \/ AutoFocusDepsChanged]
  /\ IF Snapshot.isMobile # rendered.isMobile
       THEN /\ IF Applied(Snapshot.isMobile)
                 THEN effectiveUpdateTransform(Snapshot.isMobile, window, computeInitialTransform, FALSE)
                 ELSE /\ transformSet' = FALSE
                      /\ UNCHANGED <<transform, isTransitioning, transitionTimers, lastAnimated, lastCallAge>>
            /\ dirty' = Applied(Snapshot.isMobile)
            /\ rafQueue' = Append(rafQueue, Snapshot.isMobile)
       ELSE /\ dirty' = FALSE
            /\ transformSet' = FALSE
            /\ UNCHANGED <<transform, isTransitioning, transitionTimers, lastAnimated, lastCallAge, rafQueue>>
  /\ UNCHANGED <<envVars, mounted, zoomFitTimers, gestVars, items, dragging, dragState, listening, cardVars,
                 currentIndex, histVars>>

\* the requestAnimationFrame callback of initializeView
AnimationFrame ==
  /\ rafQueue # << >>
  /\ LET mobile == Head(rafQueue)
         scale == IF mobile THEN InitViewScaleMobile ELSE InitViewScaleDesktop
     IN /\ effectiveUpdateTransform(mobile, window, [x |-> 0, y |-> 0, scale |-> scale], FALSE)
        /\ dirty' = (dirty \/ Applied(mobile))
  /\ rafQueue' = Tail(rafQueue)
  /\ UNCHANGED <<envVars, mounted, autoFocus, rendered, zoomFitTimers, gestVars, itemVars, cardVars,
                 currentIndex, histVars>>

----------------------------------------------------------------------------
(* Time: timers count down; a due timer runs before time moves on *)

TimerLefts ==
  transitionTimers \cup {t.left : t \in zoomFitTimers} \cup {t.left : t \in longPressTimers}
    \cup ({autoFocus.timer} \ {NoTimer})

\* d ms pass without any callback running
Advance(d) ==
  /\ d > 0
  /\ \A left \in TimerLefts : left >= d
  /\ lastCallAge' = Min(lastCallAge + d, ThrottleDelay)
  /\ transitionTimers' = {left - d : left \in transitionTimers}
  /\ lastAnimated' = IF lastAnimated.since + d >= TransitionMs
                       THEN NoAnimation
                       ELSE [lastAnimated EXCEPT !.since = @ + d]
  /\ zoomFitTimers' = {[t EXCEPT !.left = @ - d] : t \in zoomFitTimers}
  /\ longPressTimers' = {[t EXCEPT !.left = @ - d] : t \in longPressTimers}
  /\ autoFocus' = [autoFocus EXCEPT !.timer = IF @ = NoTimer THEN NoTimer ELSE @ - d]
  /\ UNCHANGED <<envVars, mounted, dirty, rendered, transform, transformSet, isTransitioning, rafQueue, gestVars, itemVars,
                 longPressTimeout, isInteracting, nextTimerId, navigatedTo, currentIndex, histVars>>

\* time moves to the moment the throttle reopens or to a timer's deadline
Tick(d) ==
  /\ \/ lastCallAge < ThrottleDelay /\ d = ThrottleDelay
     \/ d \in TimerLefts
  /\ Advance(d)

\* the timer of updateTransform(.., animate = true) fires
TransitionEnd ==
  /\ 0 \in transitionTimers
  /\ transitionTimers' = transitionTimers \ {0}
  /\ isTransitioning' = FALSE
  /\ dirty' = TRUE
  /\ UNCHANGED <<envVars, mounted, autoFocus, rendered, transform, transformSet, lastAnimated, lastCallAge, rafQueue, zoomFitTimers,
                 gestVars, itemVars, cardVars, currentIndex, histVars>>

----------------------------------------------------------------------------
(* View controller handlers *)

\* what an input handler that only calls effectiveUpdateTransform leaves alone
ViewEvent(op, mobile) ==
  /\ dirty' = (dirty \/ Applied(mobile))
  /\ steps' = steps + 1
  /\ lastOp' = op
  /\ UNCHANGED <<hover, pressed, touching, uaMobile, content, measureNodes, mounted, autoFocus, rendered, rafQueue,
                 zoomFitTimers, gestVars, itemVars, cardVars, currentIndex, fault, dragOrigin>>

\* handleWheel without ctrl/meta; attached to the container on desktop renders only
handleWheelPan(deltaX, deltaY) ==
  /\ ~rendered.isMobile
  /\ hover.over # Outside
  /\ effectiveUpdateTransform(rendered.isMobile, window,
       WheelPanTarget(rendered.transform, transform, deltaX, deltaY), FALSE)
  /\ ViewEvent(Op("wheelPan", NoItem, Point(deltaX, deltaY), Applied(rendered.isMobile)),
               rendered.isMobile)
  /\ UNCHANGED window

\* handleWheel with ctrl/meta: handleZoom toward the pointer
handleWheelZoom(deltaY, focal) ==
  /\ ~rendered.isMobile
  /\ hover.over # Outside
  /\ effectiveUpdateTransform(rendered.isMobile, window,
       ZoomTarget(rendered.transform, WheelZoomScale(rendered.transform, deltaY), focal, window),
       FALSE)
  /\ ViewEvent(Op("wheelZoom", deltaY, focal, Applied(rendered.isMobile)), rendered.isMobile)
  /\ UNCHANGED window

\* toolbar zoom buttons: shown from the sm breakpoint up, disabled at the
\* rendered scale limits, onZoomIn(true) / onZoomOut(true)
handleZoomIn ==
  /\ window.innerWidth >= SmBreakpoint
  /\ rendered.transform.scale < ZoomButtonMaxScale
  /\ effectiveUpdateTransform(rendered.isMobile, window,
       ZoomTarget(rendered.transform, ZoomInScale(rendered.transform), ViewportCenter(window), window),
       TRUE)
  /\ ViewEvent(Op("zoomIn", NoItem, ViewportCenter(window), Applied(rendered.isMobile)),
               rendered.isMobile)
  /\ UNCHANGED window

handleZoomOut ==
  /\ window.innerWidth >= SmBreakpoint
  /\ rendered.transform.scale > SCALES_MIN
  /\ effectiveUpdateTransform(rendered.isMobile, window,
       ZoomTarget(rendered.transform, ZoomOutScale(rendered.transform), ViewportCenter(window), window),
       TRUE)
  /\ ViewEvent(Op("zoomOut", NoItem, ViewportCenter(window), Applied(rendered.isMobile)),
               rendered.isMobile)
  /\ UNCHANGED window

\* toolbar home button: centerView(event), the event object is a truthy "animate"
centerView ==
  /\ effectiveUpdateTransform(rendered.isMobile, window, computeInitialTransform, TRUE)
  /\ ViewEvent(Op("centerView", NoItem, Point(0, 0), Applied(rendered.isMobile)), rendered.isMobile)
  /\ UNCHANGED window

\* the window is resized to "win": handleResize of the layout effect
handleResize(win) ==
  /\ win # window
  /\ uaMobile => win.innerWidth <= MobileBreakpoint
  /\ window' = win
  /\ effectiveUpdateTransform(rendered.isMobile, win, [transform EXCEPT !.x = 0, !.y = 0], FALSE)
  /\ ViewEvent(Op("resize", NoItem, Point(win.innerWidth, win.innerHeight), Applied(rendered.isMobile)),
               rendered.isMobile)

----------------------------------------------------------------------------
(* Card focus controller *)

\* faulty variant of clampedIndex: the remainder alone, which is negative for
\* a negative index
clampedIndex_RemainderOnly(index, n) == JsRem(index, n)

\* ((index % items.length) + items.length) % items.length
clampedIndex(index, n) ==
  LET r == JsRem(index, n)
  IN IF r = NaN THEN NaN ELSE JsRem(r + n, n)

\* faulty variant of focusAborts: no guard
focusAborts_Never(n) == FALSE

\* the guard of focusOnCard
focusAborts(n) == n = 0

getZoomLevel == IF IsMobile(uaMobile, window) THEN FocusZoomMobile ELSE FocusZoomDesktop

\* the transform focusOnCard asks for: Math.round(-centre * zoom * 100) / 100
FocusTarget(card, zoomLevel) ==
  [x |-> RoundDiv(-card.x * zoomLevel, ScaleUnit),
   y |-> RoundDiv(-card.y * zoomLevel, ScaleUnit),
   scale |-> zoomLevel]

\* focusOnCard(index) of the render whose items and isMobile are "seen".
\* Reading a card outside the list yields undefined, and card.id then throws
\* before any state is set.
focusOnCardOf(seen, index, name) ==
  LET n == Len(seen.items)
      target == clampedIndex(index, n)
  IN /\ steps' = steps + 1
     /\ UNCHANGED <<envVars, mounted, rendered, rafQueue, zoomFitTimers, gestVars, itemVars,
                    cardVars, dragOrigin>>
     /\ IF focusAborts(n)
          THEN /\ lastOp' = Op(name, index, Point(0, 0), FALSE)
               /\ UNCHANGED <<transform, transformSet, isTransitioning, transitionTimers, lastAnimated, lastCallAge, dirty,
                              currentIndex, fault>>
          ELSE IF target \notin 0..(n - 1)
            THEN /\ fault' = TRUE
                 /\ lastOp' = Op(name, index, Point(0, 0), FALSE)
                 /\ UNCHANGED <<transform, transformSet, isTransitioning, transitionTimers, lastAnimated, lastCallAge, dirty,
                                currentIndex>>
            ELSE /\ currentIndex' = target
                 /\ effectiveUpdateTransform(seen.isMobile, window,
                      FocusTarget(seen.items[target + 1], getZoomLevel), TRUE)
                 /\ dirty' = (dirty \/ target # currentIndex \/ Applied(seen.isMobile))
                 /\ lastOp' = Op(name, index, Point(0, 0), Applied(seen.isMobile))
                 /\ UNCHANGED fault

\* focusOnCard(index) of the last render, called by the toolbar and the keys
focusOnCard(index, name) == focusOnCardOf(rendered, index, name) /\ UNCHANGED autoFocus

\* toolbar arrows and the ArrowLeft / ArrowRight key bindings
onFocusPrev == focusOnCard(rendered.currentIndex - 1, "focusPrev")
onFocusNext == focusOnCard(rendered.currentIndex + 1, "focusNext")
handleKeyPress(key) ==
  CASE key = "ArrowLeft" -> onFocusPrev
    [] key = "ArrowRight" -> onFocusNext

----------------------------------------------------------------------------
(* Expand / collapse and zoom-to-fit *)

\* measurement containers that calculateOptimalSize leaves in document.body.
\* measureContentHeight appends the container, reads scrollHeight and
\* scrollWidth and removes it, without try/finally; "atRead" says that the
\* exception of a throwing measurement is raised by those reads and not before
\* the container is appended.
MeasureContainersLeft(m, isCurrentlyExpanded, atRead) ==
  IF m.element /\ ~isCurrentlyExpanded /\ m.container /\ m.throws /\ atRead THEN 1 ELSE 0

\* handleExpand(id, cardElement): the updater toggles the item of the current
\* state; on a touch-primary device an expand with a card element also sets
\* the zoom-to-fit timer, whose callback is the handleZoomToFit of this render
\* (lastOp also records whether the card element and its content container
\* were there)
handleExpand(id, m) ==
  /\ id \in 1..Len(rendered.items)
  /\ IF id \in 1..Len(items)
       THEN LET isExpanded == items[id].expanded
                newDimensions == ExpandDimensions(m, isExpanded)
            IN /\ items' = [items EXCEPT ![id].width = newDimensions.width,
                                         ![id].height = newDimensions.height,
                                         ![id].expanded = ~isExpanded]
               /\ zoomFitTimers' =
                    IF IsMobile(uaMobile, window) /\ ~isExpanded /\ m.element
                      THEN zoomFitTimers \cup {[item |-> id, left |-> ZoomFitDelay,
                                                scale |-> rendered.transform.scale,
                                                mobile |-> rendered.isMobile]}
                      ELSE zoomFitTimers
               /\ \E atRead \in BOOLEAN :
                    measureNodes' = measureNodes + MeasureContainersLeft(m, isExpanded, atRead)
               /\ lastOp' = [name |-> "expand", id |-> id,
                             pos |-> Point(newDimensions.width, newDimensions.height),
                             applied |-> isExpanded,
                             element |-> m.element, container |-> m.container]
       ELSE /\ UNCHANGED <<items, zoomFitTimers, measureNodes>>
            /\ lastOp' = Op("expand", id, Point(0, 0), FALSE)
  /\ itemsSet' = TRUE
  /\ dirty' = TRUE
  /\ steps' = steps + 1
  /\ UNCHANGED <<window, uaMobile, hover, pressed, touching, content, mounted, autoFocus, rendered, transform, transformSet, isTransitioning, transitionTimers, lastAnimated,
                 lastCallAge, rafQueue, gestVars, dragging, dragState, listening, cardVars,
                 currentIndex, fault, dragOrigin>>

\* the scale handleZoomToFit asks for; the card's rectangle and its --item-x/y
\* are read from the DOM, "seenScale" is the scale of the callback's closure
ZoomToFitScale(card, seenScale, domScale, win) ==
  LET padding == 60
      requiredWidth == RoundDiv(card.width * domScale, ScaleUnit) + padding * 2
      requiredHeight == RoundDiv(card.height * domScale, ScaleUnit) + padding * 2
      scaleX == RoundDiv(win.innerWidth * ScaleUnit, requiredWidth)
      scaleY == RoundDiv(win.innerHeight * ScaleUnit, requiredHeight)
  IN Min(Min(scaleX, scaleY), seenScale)

\* the zoom-to-fit timer fires: handleZoomToFit(cardElement, true)
handleZoomToFit(t) ==
  /\ t \in zoomFitTimers
  /\ t.left = 0
  /\ zoomFitTimers' = zoomFitTimers \ {t}
  /\ IF t.item \in 1..Len(rendered.items)
       THEN LET card == rendered.items[t.item]
                targetScale == ZoomToFitScale(card, t.scale, rendered.transform.scale, window)
            IN IF targetScale < t.scale
                 THEN /\ effectiveUpdateTransform(t.mobile, window,
                           [x |-> RoundDiv(-card.x * targetScale, ScaleUnit),
                            y |-> RoundDiv(-card.y * targetScale, ScaleUnit),
                            scale |-> targetScale], TRUE)
                      /\ dirty' = (dirty \/ Applied(t.mobile))
                      /\ lastOp' = Op("zoomToFit", t.item, Point(targetScale, t.scale), Applied(t.mobile))
                 ELSE /\ UNCHANGED <<transform, transformSet, isTransitioning, transitionTimers, lastAnimated, lastCallAge, dirty>>
                      /\ lastOp' = Op("zoomToFit", t.item, Point(targetScale, t.scale), FALSE)
       ELSE /\ UNCHANGED <<transform, transformSet, isTransitioning, transitionTimers, lastAnimated, lastCallAge, dirty>>
            /\ lastOp' = Op("zoomToFit", t.item, Point(0, 0), FALSE)
  /\ UNCHANGED <<envVars, mounted, autoFocus, rendered, rafQueue, gestVars, itemVars, cardVars,
                 currentIndex, fault, steps, dragOrigin>>

----------------------------------------------------------------------------
(* Canvas gesture recognizer *)

\* handleGestureStart; a touch event has no "button" property
handleGestureStart(isTouch, button, pos) ==
  IF ~isTouch /\ button # 0
    THEN UNCHANGED <<isDragging, lastMousePos>>
    ELSE isDragging' = TRUE /\ lastMousePos' = pos

\* handleGestureMove of the last render: isDragging and lastMousePos are the
\* rendered values, the scale is the --scale of the container in the DOM, the
\* update is applied to the current transform
GesturePanTarget(prev, seenLast, domScale, pos) ==
  [prev EXCEPT !.x = @ + RoundDiv((pos.x - seenLast.x) * ScaleUnit, domScale),
               !.y = @ + RoundDiv((pos.y - seenLast.y) * ScaleUnit, domScale)]

handleGestureMove(pos) ==
  IF ~rendered.isDragging
    THEN UNCHANGED <<transform, transformSet, isTransitioning, transitionTimers, lastAnimated, lastCallAge, lastMousePos>>
    ELSE /\ effectiveUpdateTransform(rendered.isMobile, window,
              GesturePanTarget(transform, rendered.lastMousePos, rendered.transform.scale, pos), FALSE)
         /\ lastMousePos' = pos

\* handleGestureEnd
handleGestureEnd == isDragging' = FALSE

----------------------------------------------------------------------------
(* Item store: drag session *)

\* centre of the container's bounding rectangle: the container is centred in
\* the viewport and translated by the rendered --translateX/Y
ContainerCenter ==
  Point(ViewportCenter(window).x + rendered.transform.x,
        ViewportCenter(window).y + rendered.transform.y)

\* getContainerScale(): the rendered --scale
getContainerScale == rendered.transform.scale

\* pointer position relative to the container centre, in world units
RelativeMouse(pos) ==
  Point(RoundDiv((pos.x - ContainerCenter.x) * ScaleUnit, getContainerScale),
        RoundDiv((pos.y - ContainerCenter.y) * ScaleUnit, getContainerScale))

\* handleDragStart(id, event) of the last render: the item is looked up in
\* the rendered items
handleDragStart(id, pos) ==
  LET item == rendered.items[id]
      rel == RelativeMouse(pos)
  IN /\ dragging' = id
     /\ dragState' = [itemId |-> id,
                      initialMousePos |-> rel,
                      initialItemPos |-> Point(item.x, item.y),
                      offset |-> Point(rel.x - item.x, rel.y - item.y)]
     /\ listening' = TRUE

\* faulty variant of DragPosition: the grab offset is forgotten and the item's
\* centre jumps to the pointer
DragPosition_NoOffset(pos, offset) == RelativeMouse(pos)

\* the position handleDragMove assigns to the dragged item
DragPosition(pos, offset) ==
  Point(RelativeMouse(pos).x - offset.x, RelativeMouse(pos).y - offset.y)

\* faulty variant of handleDragMove: the updater moves every item
handleDragMove_MovesAll(pos) ==
  IF dragState.itemId = NoItem
    THEN UNCHANGED <<items, itemsSet>>
    ELSE /\ itemsSet' = TRUE
         /\ items' = [i \in DOMAIN items |->
                        [items[i] EXCEPT !.x = DragPosition(pos, dragState.offset).x,
                                         !.y = DragPosition(pos, dragState.offset).y]]

\* handleDragMove(event), a window listener
handleDragMove(pos) ==
  IF dragState.itemId = NoItem
    THEN UNCHANGED <<items, itemsSet>>
    ELSE /\ itemsSet' = TRUE
         /\ IF dragState.itemId \notin DOMAIN items
              THEN UNCHANGED items
              ELSE items' = [items EXCEPT ![dragState.itemId].x = DragPosition(pos, dragState.offset).x,
                                          ![dragState.itemId].y = DragPosition(pos, dragState.offset).y]

\* faulty variant of handleDragEnd: the session record is kept
handleDragEnd_KeepsSession ==
  /\ dragging' = NoItem
  /\ UNCHANGED dragState
  /\ listening' = FALSE

\* handleDragEnd
handleDragEnd ==
  /\ dragging' = NoItem
  /\ dragState' = NoDrag
  /\ listening' = FALSE

----------------------------------------------------------------------------
(* Pointer events and their routing through the card and the container *)

Cards == 1..Len(rendered.items)

\* faulty variant of ClearLongPress: the state is reset but the timer is
\* left running
ClearLongPress_KeepsTimer(c) ==
  /\ longPressTimeout' = [longPressTimeout EXCEPT ![c] = NoTimer]
  /\ UNCHANGED longPressTimers

\* clearTimeout(longPressTimeout) and setLongPressTimeout(null), when the
\* rendered longPressTimeout of the card is set
ClearLongPress(c) ==
  IF rendered.longPressTimeout[c] # NoTimer
    THEN /\ longPressTimers' = {t \in longPressTimers : t.id # rendered.longPressTimeout[c]}
         /\ longPressTimeout' = [longPressTimeout EXCEPT ![c] = NoTimer]
    ELSE UNCHANGED <<longPressTimers, longPressTimeout>>

MaxZ(its) == IF Len(its) = 0 THEN 0
             ELSE CHOOSE m \in {its[i].z : i \in DOMAIN its} : \A i \in DOMAIN its : its[i].z <= m

\* mousedown with "button" on the element under the pointer
MouseDown(button) ==
  /\ button \notin pressed
  /\ hover.over # Outside
  /\ pressed' = pressed \cup {button}
  /\ steps' = steps + 1
  /\ IF hover.over \in Cards /\ button = 0
       THEN \* CardWrapper.handleMouseDown: stopPropagation, onDragStart, long-press timer
            /\ isInteracting' = [isInteracting EXCEPT ![hover.over] = TRUE]
            /\ handleDragStart(hover.over, hover.at)
            /\ longPressTimers' = longPressTimers \cup
                 {[id |-> nextTimerId, card |-> hover.over, left |-> LongPressMs]}
            /\ longPressTimeout' = [longPressTimeout EXCEPT ![hover.over] = nextTimerId]
            /\ nextTimerId' = nextTimerId + 1
            /\ dragOrigin' = [client |-> hover.at,
                              position |-> IF hover.over \in DOMAIN items
                                             THEN Point(items[hover.over].x, items[hover.over].y)
                                             ELSE Point(0, 0),
                              scale |-> getContainerScale,
                              center |-> ContainerCenter,
                              maxZ |-> MaxZ(items),
                              away |-> FALSE,
                              sameView |-> TRUE]
            /\ lastOp' = Op("cardMouseDown", hover.over, hover.at, TRUE)
            /\ dirty' = TRUE
            /\ UNCHANGED <<gestVars, items, itemsSet, navigatedTo>>
       ELSE \* the event reaches the container, whose handlers exist on desktop renders
            /\ IF rendered.isMobile
                 THEN UNCHANGED <<gestVars, dirty>>
                 ELSE handleGestureStart(FALSE, button, hover.at) /\ dirty' = (dirty \/ button = 0)
            /\ lastOp' = Op("mouseDown", hover.over, hover.at, ~rendered.isMobile /\ button = 0)
            /\ UNCHANGED <<itemVars, cardVars, dragOrigin>>
  /\ UNCHANGED <<window, uaMobile, hover, touching, content, measureNodes, mounted, autoFocus, rendered, viewVars,
                 currentIndex, fault>>

\* window "mouseup" listeners: handleDragEnd while a drag listens, and the
\* handleGlobalMouseUp of every card that rendered as interacting
WindowMouseUp ==
  /\ IF listening THEN handleDragEnd ELSE UNCHANGED <<dragging, dragState, listening>>
  /\ isInteracting' = [c \in DOMAIN isInteracting |->
                         IF c \in DOMAIN rendered.isInteracting /\ rendered.isInteracting[c]
                           THEN FALSE ELSE isInteracting[c]]

\* mouseup of "button" on the element under the pointer
MouseUp(button) ==
  /\ button \in pressed
  /\ pressed' = pressed \ {button}
  /\ steps' = steps + 1
  /\ lastOp' = Op("mouseUp", hover.over, hover.at, hover.over \in Cards)
  /\ dirty' = TRUE
  /\ IF hover.over \in Cards
       THEN \* CardWrapper.handleMouseUp: stopPropagation, onDragEnd, clear the timer
            /\ handleDragEnd
            /\ isInteracting' = [isInteracting EXCEPT ![hover.over] = FALSE]
            /\ ClearLongPress(hover.over)
            /\ UNCHANGED gestVars
       ELSE /\ IF hover.over = Canvas /\ ~rendered.isMobile
                 THEN handleGestureEnd
                 ELSE UNCHANGED isDragging
            /\ WindowMouseUp
            /\ UNCHANGED <<lastMousePos, longPressTimers, longPressTimeout>>
  /\ UNCHANGED <<window, uaMobile, hover, touching, content, measureNodes, mounted, autoFocus, rendered, viewVars, items, itemsSet,
                 nextTimerId, navigatedTo, currentIndex, fault, dragOrigin>>

\* the pointer moves to "pos" over "target": mouseleave of the card and of
\* the container it left, mousemove on the container, mousemove on the window
MouseMove(target, pos) ==
  /\ target \in {Outside, Canvas} \cup Cards
  /\ pos # hover.at
  /\ hover' = [over |-> target, at |-> pos]
  /\ steps' = steps + 1
  /\ lastOp' = Op("mouseMove", target, pos, listening)
  /\ IF hover.over \in Cards /\ target # hover.over
       THEN ClearLongPress(hover.over)
       ELSE UNCHANGED <<longPressTimers, longPressTimeout>>
  /\ IF rendered.isMobile
       THEN UNCHANGED <<transform, transformSet, isTransitioning, transitionTimers, lastAnimated, lastCallAge, gestVars>>
       ELSE IF target = Outside
         THEN /\ IF hover.over # Outside THEN handleGestureEnd ELSE UNCHANGED isDragging
              /\ UNCHANGED <<transform, transformSet, isTransitioning, transitionTimers, lastAnimated, lastCallAge, lastMousePos>>
         ELSE handleGestureMove(pos) /\ UNCHANGED isDragging
  /\ IF listening THEN handleDragMove(pos) ELSE UNCHANGED <<items, itemsSet>>
  /\ dragOrigin' = IF listening
                     THEN [dragOrigin EXCEPT
                             !.away = @ \/ pos # dragOrigin.client,
                             !.sameView = /\ ContainerCenter = dragOrigin.center
                                          /\ getContainerScale = dragOrigin.scale]
                     ELSE dragOrigin
  /\ dirty' = TRUE
  /\ UNCHANGED <<window, uaMobile, pressed, touching, content, measureNodes, mounted, autoFocus, rendered, rafQueue,
                 zoomFitTimers, dragging, dragState, listening, isInteracting, nextTimerId,
                 navigatedTo, currentIndex, fault>>

\* touch events: the card has no touch handlers, so every touch event
\* reaches the container, whose handlers exist on desktop renders
TouchStart(target, pos) ==
  /\ ~touching
  /\ target \in {Canvas} \cup Cards
  /\ touching' = TRUE
  /\ IF rendered.isMobile
       THEN UNCHANGED <<gestVars, dirty>>
       ELSE handleGestureStart(TRUE, 0, pos) /\ dirty' = TRUE
  /\ steps' = steps + 1
  /\ lastOp' = Op("touchStart", target, pos, ~rendered.isMobile)
  /\ UNCHANGED <<window, uaMobile, hover, pressed, content, measureNodes, mounted, autoFocus, rendered, viewVars,
                 itemVars, cardVars, currentIndex, fault, dragOrigin>>

TouchMove(pos) ==
  /\ touching
  /\ IF rendered.isMobile
       THEN UNCHANGED <<transform, transformSet, isTransitioning, transitionTimers, lastAnimated, lastCallAge, lastMousePos, dirty>>
       ELSE handleGestureMove(pos) /\ dirty' = (dirty \/ rendered.isDragging)
  /\ steps' = steps + 1
  /\ lastOp' = Op("touchMove", NoItem, pos, ~rendered.isMobile /\ rendered.isDragging)
  /\ UNCHANGED <<envVars, mounted, autoFocus, rendered, rafQueue, zoomFitTimers, isDragging, itemVars,
                 cardVars, currentIndex, fault, dragOrigin>>

TouchEnd ==
  /\ touching
  /\ touching' = FALSE
  /\ IF rendered.isMobile
       THEN UNCHANGED <<isDragging, dirty>>
       ELSE handleGestureEnd /\ dirty' = TRUE
  /\ steps' = steps + 1
  /\ lastOp' = Op("touchEnd", NoItem, Point(0, 0), ~rendered.isMobile)
  /\ UNCHANGED <<window, uaMobile, hover, pressed, content, measureNodes, mounted, autoFocus, rendered, viewVars,
                 lastMousePos, itemVars, cardVars, currentIndex, fault, dragOrigin>>

\* the long-press timer of a card fires: onLongPress(id) navigates to the
\* item's detail route
handleLongPress(t) ==
  /\ t \in longPressTimers
  /\ t.left = 0
  /\ longPressTimers' = longPressTimers \ {t}
  /\ navigatedTo' = t.card
  /\ lastOp' = Op("longPress", t.card, Point(t.id, 0), TRUE)
  /\ UNCHANGED <<envVars, reactVars, viewVars, gestVars, itemVars, longPressTimeout,
                 isInteracting, nextTimerId, currentIndex, fault, steps, dragOrigin>>

----------------------------------------------------------------------------
(* The view: every operation that writes the transform *)

\* input events arrive once the mount effects have run
InputEnabled == mounted /\ steps < MaxSteps

ViewContents == {[n |-> 2, seed |-> 0]}

Init == InitWith(ViewContents)

Next ==
  \/ MountEffects
  \/ Render
  \/ AnimationFrame
  \/ \E d \in {ThrottleDelay} \cup TimerLefts : Tick(d)
  \/ TransitionEnd
  \/ InputEnabled /\ \E p \in WheelPans : handleWheelPan(p[1], p[2])
  \/ InputEnabled /\ \E deltaY \in WheelZooms : handleWheelZoom(deltaY, hover.at)
  \/ InputEnabled /\ handleZoomIn
  \/ InputEnabled /\ handleZoomOut
  \/ InputEnabled /\ centerView
  \/ InputEnabled /\ \E win \in Viewports : handleResize(win)
  \/ InputEnabled /\ \E key \in {"ArrowLeft", "ArrowRight"} : handleKeyPress(key)
  \/ InputEnabled /\ \E id \in Cards : handleExpand(id, TallCard)
  \/ \E t \in zoomFitTimers : handleZoomToFit(t)
  \/ InputEnabled /\ MouseDown(0)
  \/ InputEnabled /\ \E pos \in ClientPoints(window) : MouseMove(Canvas, pos)
  \/ InputEnabled /\ MouseUp(0)

Spec == Init /\ [][Next]_vars

----------------------------------------------------------------------------
(* Properties of the view *)

\* C1: in every reachable state the stored scale lies within
\* [SCALES.MIN, SCALES.MAX], whatever sequence of transform-writing
\* operations led there
ScaleInvariant == SCALES_MIN <= transform.scale /\ transform.scale <= SCALES_MAX

\* a wheel zoom whose requested scale fell below the minimum has been applied
ScaleClampedAtMin ==
  /\ lastOp.name = "wheelZoom"
  /\ lastOp.applied
  /\ transform.scale = SCALES_MIN

\* bound on the rounding error of the fixed-point arithmetic, in px
FocusTolerance == 2

\* the world point that the mapping screen = world * scale + centre + (x, y)
\* sends to the screen point P under T, and the screen point of a world point
FocalWorld(T, P, win) ==
  Point(RoundDiv((P.x - ViewportCenter(win).x - T.x) * ScaleUnit, T.scale),
        RoundDiv((P.y - ViewportCenter(win).y - T.y) * ScaleUnit, T.scale))
ToScreen(T, w, win) ==
  Point(RoundDiv(w.x * T.scale, ScaleUnit) + ViewportCenter(win).x + T.x,
        RoundDiv(w.y * T.scale, ScaleUnit) + ViewportCenter(win).y + T.y)

PanClampFree(T, win) ==
  Abs(T.x) < 2 * win.innerWidth /\ Abs(T.y) < 2 * win.innerHeight

ZoomOps == {"wheelZoom", "zoomIn", "zoomOut"}

\* C2: an applied handleZoom from an up-to-date transform T toward the focal
\* point P keeps P fixed: the world point under P before the zoom is under P
\* after it (up to rounding, and when the pan clamp does not bind)
ZoomKeepsFocalPoint ==
  [][(/\ steps' # steps
      /\ lastOp'.name \in ZoomOps
      /\ lastOp'.applied
      /\ rendered.transform = transform
      /\ PanClampFree(transform', window))
     => LET after == ToScreen(transform', FocalWorld(transform, lastOp'.pos, window), window)
        IN /\ Abs(after.x - lastOp'.pos.x) <= FocusTolerance
           /\ Abs(after.y - lastOp'.pos.y) <= FocusTolerance]_vars

\* the transform each handler produces when it reads the current transform
\* at apply time
AppliedToCurrent(op) ==
  CASE op.name = "wheelPan" ->
         ClampTransform(WheelPanTarget(transform, transform, op.pos.x, op.pos.y), window)
    [] op.name = "wheelZoom" ->
         ClampTransform(ZoomTarget(transform, WheelZoomScale(transform, op.id), op.pos, window), window)
    [] op.name = "zoomIn" ->
         ClampTransform(ZoomTarget(transform, ZoomInScale(transform), op.pos, window), window)
    [] op.name = "zoomOut" ->
         ClampTransform(ZoomTarget(transform, ZoomOutScale(transform), op.pos, window), window)

\* C3: no transform update is lost between renders: every applied wheel pan,
\* wheel zoom and toolbar zoom produces the transform obtained by applying it
\* to the transform the previous handler left, rendered or not
NoLostUpdate ==
  [][(/\ steps' # steps
      /\ lastOp'.name \in {"wheelPan", "wheelZoom", "zoomIn", "zoomOut"}
      /\ lastOp'.applied)
     => transform' = AppliedToCurrent(lastOp')]_vars

----------------------------------------------------------------------------
(* Pointer input: canvas panning and card dragging *)

MaxDragSteps == 4

DragContents == {[n |-> 2, seed |-> 2]}

DragEnabled == mounted /\ steps < MaxDragSteps

InitDrag == InitWith(DragContents)

NextDrag ==
  \/ MountEffects
  \/ Render
  \/ AnimationFrame
  \/ \E d \in {ThrottleDelay} \cup TimerLefts : Tick(d)
  \/ \E t \in longPressTimers : handleLongPress(t)
  \/ DragEnabled /\ \E button \in {0, 2} : MouseDown(button)
  \/ DragEnabled /\ \E target \in {Outside, Canvas} \cup Cards, pos \in ClientPoints(window) :
       MouseMove(target, pos)
  \/ DragEnabled /\ \E button \in {0, 2} : MouseUp(button)
  \/ DragEnabled /\ \E target \in {Canvas} \cup Cards, pos \in ClientPoints(window) :
       TouchStart(target, pos)
  \/ DragEnabled /\ \E pos \in ClientPoints(window) : TouchMove(pos)
  \/ DragEnabled /\ TouchEnd
  \/ DragEnabled /\ handleWheelZoom(1000, hover.at)

SpecDrag == InitDrag /\ [][NextDrag]_vars

----------------------------------------------------------------------------
(* Properties of panning and dragging *)

PointerDowns == {"cardMouseDown", "mouseDown", "touchStart"}

\* C4: a card drag session and canvas panning are never active together, and
\* a pointer-down on a card (mouse or touch) never starts a canvas pan
PanDragExclusive ==
  /\ [](~(isDragging /\ dragState.itemId # NoItem))
  /\ [][(steps' # steps /\ lastOp'.name \in PointerDowns /\ lastOp'.id # Canvas)
        => (isDragging' => isDragging)]_vars

ItemPosition(id) == Point(items[id].x, items[id].y)

\* the drag session's item after beginDrag, or after a drag-move that has
\* brought the pointer back to where the drag began
DragAtOrigin ==
  /\ dragState.itemId # NoItem
  /\ dragState.itemId \in DOMAIN items
  /\ \/ lastOp.name = "cardMouseDown"
     \/ lastOp.name = "mouseMove" /\ lastOp.applied /\ lastOp.pos = dragOrigin.client

\* C5 as stated: beginDrag does not move the item, and whenever a drag-move
\* has brought the pointer back to A the item is at its position before the drag
DragRoundTrip ==
  DragAtOrigin => ItemPosition(dragState.itemId) = dragOrigin.position

\* at the last drag-move the container was drawn with the scale and at the
\* place it had at beginDrag
SameViewAsAtBeginDrag == dragOrigin.sameView

\* C5: beginDrag alone does not move the item; a drag-move that brings the
\* pointer back to A while the container is drawn with the same scale and at
\* the same place as at beginDrag puts the item at the position it was
\* rendered at when the drag began
DragRoundTripSameView ==
  /\ (DragAtOrigin /\ lastOp.name = "cardMouseDown")
       => ItemPosition(dragState.itemId) = dragOrigin.position
  /\ (DragAtOrigin /\ lastOp.name = "mouseMove" /\ SameViewAsAtBeginDrag)
       => ItemPosition(dragState.itemId) = dragState.initialItemPos

\* the pointer went away from A during the drag and a drag-move has brought
\* it back, the view being as at beginDrag
DraggedAwayAndBack ==
  /\ DragAtOrigin
  /\ lastOp.name = "mouseMove"
  /\ dragOrigin.away
  /\ SameViewAsAtBeginDrag
  /\ ItemPosition(dragState.itemId) = dragOrigin.position

\* C6: after beginDrag on an item, its z is one more than the largest z of
\* all items before the call
ZRaisedOnBeginDrag ==
  (lastOp.name = "cardMouseDown" /\ lastOp.id \in DOMAIN items)
    => items[lastOp.id].z = dragOrigin.maxZ + 1

----------------------------------------------------------------------------
(* Expanding and collapsing cards *)

MaxExpandSteps == 2

ExpandContents == {[n |-> 1, seed |-> 1], [n |-> 2, seed |-> 0]}

ExpandEnabled == mounted /\ steps < MaxExpandSteps

InitExpand == InitWith(ExpandContents) /\ hover.at = ViewportCenter(window)

NextExpand ==
  \/ MountEffects
  \/ Render
  \/ AnimationFrame
  \/ \E d \in {ThrottleDelay} \cup TimerLefts : Tick(d)
  \/ TransitionEnd
  \/ ExpandEnabled /\ \E id \in Cards, m \in Measurements : handleExpand(id, m)
  \/ \E t \in zoomFitTimers : handleZoomToFit(t)
  \/ ExpandEnabled /\ handleKeyPress("ArrowRight")

SpecExpand == InitExpand /\ [][NextExpand]_vars

\* C7: an item that is not expanded has the default dimensions, and a toggle
\* of an expanded item leaves it collapsed: expand followed by collapse gives
\* expanded = false and STICKY_NOTE.WIDTH x STICKY_NOTE.HEIGHT, whatever the
\* expand measured
CollapseRestoresDefaults ==
  /\ \A i \in DOMAIN items :
       ~items[i].expanded =>
         items[i].width = STICKY_NOTE_WIDTH /\ items[i].height = STICKY_NOTE_HEIGHT
  /\ (lastOp.name = "expand" /\ lastOp.applied /\ lastOp.id \in DOMAIN items)
       => ~items[lastOp.id].expanded

\* an expanded item has just been collapsed
ExpandedThenCollapsed ==
  /\ lastOp.name = "expand"
  /\ lastOp.applied
  /\ lastOp.id \in DOMAIN items
  /\ ~items[lastOp.id].expanded
  /\ lastOp.pos = Point(STICKY_NOTE_WIDTH, STICKY_NOTE_HEIGHT)

----------------------------------------------------------------------------
(* Card focus *)

MaxFocusSteps == 2
MaxFocusIndex == 6

FocusContents == {[n |-> 0, seed |-> 0], [n |-> 5, seed |-> 1], [n |-> 10, seed |-> 2]}

FocusEnabled == mounted /\ steps < MaxFocusSteps

InitFocus == InitWith(FocusContents) /\ hover.at = ViewportCenter(window)

NextFocus ==
  \/ MountEffects
  \/ Render
  \/ AnimationFrame
  \/ \E d \in {ThrottleDelay} \cup TimerLefts : Tick(d)
  \/ TransitionEnd
  \/ FocusEnabled /\ \E key \in {"ArrowLeft", "ArrowRight"} : handleKeyPress(key)
  \/ FocusEnabled /\ \E index \in (-MaxFocusIndex)..MaxFocusIndex : focusOnCard(index, "focusOnCard")

SpecFocus == InitFocus /\ [][NextFocus]_vars

FocusOps == {"focusPrev", "focusNext", "focusOnCard"}

\* a focus operation runs against a rendered list of n items
FocusStep(n) ==
  /\ steps' # steps
  /\ lastOp'.name \in FocusOps
  /\ Len(rendered.items) = n

\* C8: with a non-empty list of n items focusOnCard(i) sets currentIndex to
\* i mod n for every integer i; focusNext from n-1 gives 0 and focusPrev from
\* 0 gives n-1
FocusWraps ==
  [][\A n \in 1..Len(items) :
       FocusStep(n) =>
         /\ currentIndex' = lastOp'.id % n
         /\ ~fault'
         /\ (lastOp'.name = "focusNext" /\ rendered.currentIndex = n - 1) => currentIndex' = 0
         /\ (lastOp'.name = "focusPrev" /\ rendered.currentIndex = 0) => currentIndex' = n - 1]_vars

\* focusPrev at index 0 of five items has moved the focus to index 4
FocusPrevWrapped ==
  /\ lastOp.name = "focusPrev"
  /\ lastOp.id = -1
  /\ Len(rendered.items) = 5
  /\ currentIndex = 4

\* C9: with an empty item list every focus operation leaves currentIndex,
\* the transform and isTransitioning unchanged and raises no fault
EmptyListFocusIsNoOp ==
  [][FocusStep(0) =>
       /\ UNCHANGED <<currentIndex, transform, isTransitioning, transitionTimers, lastAnimated>>
       /\ ~fault']_vars

\* focus operations have run on an empty board
FocusedOnEmptyList ==
  /\ content.n = 0
  /\ mounted
  /\ lastOp.name \in FocusOps
  /\ steps = MaxFocusSteps
  /\ ~fault

\* C10: an applied focusOnCard(i) stores the transform that puts the item's
\* centre at the viewport centre: x = -position.x * scale, y = -position.y * scale
FocusCentersItem ==
  [][(steps' # steps /\ lastOp'.name \in FocusOps /\ lastOp'.applied)
       => LET card == rendered.items[currentIndex' + 1]
          IN /\ transform'.x = RoundDiv(-card.x * transform'.scale, ScaleUnit)
             /\ transform'.y = RoundDiv(-card.y * transform'.scale, ScaleUnit)]_vars

----------------------------------------------------------------------------
(* The grid layout as a function of the item count and the column count *)

MaxLayoutItems == 6
MaxColumns == 4

LayoutContents ==
  {[n |-> n, seed |-> seed, columns |-> c] :
     n \in 0..MaxLayoutItems, seed \in 0..2, c \in 1..MaxColumns}

InitLayout == InitWith(LayoutContents)

\* calculateInitialLayout(items, columns) called with an explicit column
\* count, its result stored as the items
initializeLayout ==
  /\ ~mounted
  /\ mounted' = TRUE
  /\ items' = calculateInitialLayoutColumns(content.n, content.columns, content.seed)
  /\ itemsSet' = TRUE
  /\ dirty' = TRUE
  /\ lastOp' = Op("layout", content.columns, Point(0, 0), TRUE)
  /\ UNCHANGED <<envVars, rendered, autoFocus, viewVars, gestVars, dragging, dragState, listening, cardVars,
                 currentIndex, fault, steps, dragOrigin>>

NextLayout ==
  \/ MountEffects
  \/ initializeLayout
  \/ Render
  \/ AnimationFrame

SpecLayout == InitLayout /\ [][NextLayout]_vars

\* the column count of the layout that produced the items
LayoutColumns == IF lastOp.name = "layout" THEN content.columns ELSE CeilSqrt(content.n)

\* the grid point of index k for n items in c columns, spacing 450
GridPoint(n, c, k) ==
  Point((0 - (c * 450) \div 2) + 225 + (k % c) * 450,
        (0 - (CeilDiv(n, c) * 450) \div 2) + 225 + (k \div c) * 450)

\* C11: for n items in c columns the item at index k lies within 25 of the
\* grid point (startX + (k mod c) * 450, startY + floor(k / c) * 450) with
\* startX = -(c * 450) / 2 + 225 and startY = -(ceil(n / c) * 450) / 2 + 225;
\* three items in one column have their y-centres within 25 of -450, 0, 450
\* and their x-centres within 25 of 0
GridLayoutFormula ==
  mounted =>
    /\ Len(items) = content.n
    /\ \A k \in 0..(content.n - 1) :
         /\ Abs(items[k + 1].x - GridPoint(content.n, LayoutColumns, k).x) <= 25
         /\ Abs(items[k + 1].y - GridPoint(content.n, LayoutColumns, k).y) <= 25
    /\ (content.n = 3 /\ LayoutColumns = 1) =>
         \A k \in 0..2 : Abs(items[k + 1].x) <= 25 /\ Abs(items[k + 1].y - (k - 1) * 450) <= 25

\* three items have been laid out in one column, with jitter
ThreeItemsOneColumn ==
  /\ lastOp.name = "layout"
  /\ content.n = 3
  /\ content.columns = 1
  /\ content.seed = 2
  /\ items[1].y \in (-475)..(-425)
  /\ items[2].y \in (-25)..25
  /\ items[3].y \in 425..475
  /\ items[1].y # -450

----------------------------------------------------------------------------
(* The mouse wheel on a desktop window *)

MaxWheelSteps == 4

\* wheel deltas with ctrl held: a zoom in that reaches the largest scale from
\* any scale, and a halving of the scale
WheelHalvings == {-40000, 1000}

WheelEnabled == mounted /\ steps < MaxWheelSteps

InitWheel == InitWith(ViewContents) /\ ~IsMobile(uaMobile, window)

NextWheel ==
  \/ MountEffects
  \/ Render
  \/ AnimationFrame
  \/ WheelEnabled /\ \E p \in WheelPans : handleWheelPan(p[1], p[2])
  \/ WheelEnabled /\ \E deltaY \in WheelHalvings : handleWheelZoom(deltaY, hover.at)

SpecWheel == InitWheel /\ [][NextWheel]_vars

\* |delta| * 2.5 / scale, in px
PanShift(delta, scale) == RoundDiv(Abs(delta) * 5 * ScaleUnit, 2 * scale)

----------------------------------------------------------------------------
(* The transition flag and its timer *)

MaxTransitionSteps == 3

\* a pause between two inputs, shorter than a transition
Pauses == {500}

TransitionEnabled == mounted /\ steps < MaxTransitionSteps

InitTransition == InitWith(ViewContents) /\ hover.at = ViewportCenter(window)

NextTransition ==
  \/ MountEffects
  \/ Render
  \/ AnimationFrame
  \/ \E d \in {ThrottleDelay} \cup TimerLefts : Tick(d)
  \/ \E d \in Pauses : Advance(d)
  \/ TransitionEnd
  \/ TransitionEnabled /\ centerView
  \/ TransitionEnabled /\ handleZoomIn
  \/ TransitionEnabled /\ handleKeyPress("ArrowRight")
  \/ TransitionEnabled /\ handleWheelPan(100, 0)
  \/ TransitionEnabled /\ \E win \in Viewports : handleResize(win)

SpecTransition == InitTransition /\ [][NextTransition]_vars

NonAnimatedOps == {"wheelPan", "wheelZoom", "resize", "mouseMove", "touchMove"}

\* a step that calls updateTransform without animate, or not at all: an
\* input handler of NonAnimatedOps, the frame of initializeView, a render
NonAnimatedUpdate ==
  \/ steps' # steps /\ lastOp'.name \in NonAnimatedOps
  \/ Len(rafQueue') < Len(rafQueue)
  \/ rendered' # rendered

\* C13: isTransitioning is true until 1300 ms after the most recent animated
\* updateTransform and is never cleared earlier; at most one clear-timer is
\* pending, and it is due 1300 ms after the most recent animated update (an
\* animated update cancels the timer it finds pending); a non-animated update
\* changes neither the flag nor the pending timer
TransitionTimerResets ==
  /\ [](lastAnimated.since < TransitionMs => isTransitioning)
  /\ [](Cardinality(transitionTimers) <= 1)
  /\ [](\A left \in transitionTimers :
          isTransitioning /\ left = TransitionMs - lastAnimated.since)
  /\ [][(isTransitioning /\ ~isTransitioning') => lastAnimated.since >= TransitionMs]_vars
  /\ [][NonAnimatedUpdate => UNCHANGED <<isTransitioning, transitionTimers>>]_vars

\* an animated update found the timer of an earlier one pending, and the
\* earlier timer's deadline has passed with the flag still set
TimerWasReset ==
  /\ lastAnimated.pending # {}
  /\ \A left \in lastAnimated.pending : 0 < left /\ left < lastAnimated.since
  /\ lastAnimated.since < TransitionMs
  /\ isTransitioning
  /\ Cardinality(transitionTimers) = 1

----------------------------------------------------------------------------
(* Pressing a card: release, drag and long press *)

MaxPressSteps == 5

\* React renders the updates of a discrete event (mousedown, mouseup) before
\* the browser delivers the next event or runs the next timer; the updates of
\* a continuous event (mousemove, mouseleave) may still be pending then
DiscreteOps == {"cardMouseDown", "mouseDown", "mouseUp"}
SyncPending == dirty /\ lastOp.name \in DiscreteOps

PressEnabled == mounted /\ steps < MaxPressSteps /\ ~SyncPending

InitPress == InitWith(DragContents) /\ hover.at = ViewportCenter(window)

NextPress ==
  \/ MountEffects
  \/ Render
  \/ ~SyncPending /\ AnimationFrame
  \/ ~SyncPending /\ \E d \in {ThrottleDelay} \cup TimerLefts : Tick(d)
  \/ ~SyncPending /\ \E d \in Pauses : Advance(d)
  \/ ~SyncPending /\ \E t \in longPressTimers : handleLongPress(t)
  \/ PressEnabled /\ \E button \in {0, 2} : MouseDown(button)
  \/ PressEnabled /\ \E target \in {Outside, Canvas} \cup Cards, pos \in ClientPoints(window) :
       MouseMove(target, pos)
  \/ PressEnabled /\ \E button \in {0, 2} : MouseUp(button)

SpecPress == InitPress /\ [][NextPress]_vars

\* C14: when the primary button is released on a card, no long-press timer
\* is pending after the release, so the long press of that press never
\* fires; a long-press timer is pending only while the primary button is held
EarlyReleaseCancelsLongPress ==
  /\ [][(steps' # steps /\ lastOp'.name = "mouseUp" /\ lastOp'.applied
          /\ 0 \in pressed /\ 0 \notin pressed')
        => longPressTimers' = {}]_vars
  /\ [](longPressTimers # {} => 0 \in pressed)

\* a second press of a card has been released on the card before any
\* long press fired, and no timer is left
SecondPressReleasedEarly ==
  /\ lastOp.name = "mouseUp"
  /\ lastOp.applied
  /\ pressed = {}
  /\ nextTimerId = 3
  /\ navigatedTo = NoItem
  /\ longPressTimers = {}
  /\ steps = 5

\* C15: a press whose long-press timer fires has not moved the item: when
\* the timer of the current press navigates, the pressed item is at the
\* position it had at pointer-down
DragExcludesLongPress ==
  (/\ lastOp.name = "longPress"
   /\ 0 \in pressed
   /\ dragState.itemId = lastOp.id
   /\ longPressTimeout[lastOp.id] = lastOp.pos.x
   /\ lastOp.id \in DOMAIN items)
  => ItemPosition(lastOp.id) = dragOrigin.position

----------------------------------------------------------------------------
(* Ending a drag *)

\* a mouseup in which handleDragEnd runs: on a card (onDragEnd of the card),
\* or anywhere else while the drag's window listener is registered
EndDragStep ==
  /\ steps' # steps
  /\ lastOp'.name = "mouseUp"
  /\ lastOp'.applied \/ listening

\* C16: endDrag without an active session changes neither the items nor the
\* dragging id nor the session and raises no error; endDrag after beginDrag
\* clears the session (itemId and offset null, dragging null, listeners
\* removed); while no session is active no pointer move changes an item
EndDragIdempotentAndFinal ==
  /\ [][(EndDragStep /\ dragState.itemId = NoItem)
          => UNCHANGED <<items, dragging, dragState>> /\ ~fault']_vars
  /\ [][EndDragStep
          => dragState' = NoDrag /\ dragging' = NoItem /\ ~listening' /\ ~fault']_vars
  /\ [][(steps' # steps /\ lastOp'.name \in {"mouseMove", "touchMove"} /\ dragState.itemId = NoItem)
          => items' = items]_vars
  /\ [](dragState.itemId = NoItem => dragging = NoItem /\ ~listening)

\* a drag was begun and ended, and the pointer has moved since without
\* moving an item
DragEndedThenMoved ==
  /\ lastOp.name = "mouseMove"
  /\ ~lastOp.applied
  /\ dragOrigin # NoOrigin
  /\ dragState = NoDrag
  /\ dragging = NoItem
  /\ pressed = {}

----------------------------------------------------------------------------
(* Expanding without a DOM handle *)

\* an expand of a collapsed item for which the card element or its content
\* container was missing has just run
ExpandedWithoutHandle ==
  /\ lastOp.name = "expand"
  /\ ~lastOp.applied
  /\ lastOp.id \in DOMAIN items
  /\ ~lastOp.element \/ ~lastOp.container

\* C19, as stated: an expand without the card element or without its content
\* container assigns STICKY_NOTE.WIDTH x STICKY_NOTE.HEIGHT and raises no
\* error
MissingHandleGivesDefaultSize ==
  ExpandedWithoutHandle
    => /\ lastOp.pos = Point(STICKY_NOTE_WIDTH, STICKY_NOTE_HEIGHT)
       /\ ~fault

\* C19, amended: an expand without the card element assigns 1.5 times the
\* default size; with the element but without its content container (and no
\* text-heavy content) it assigns 1.4 times the default size, the measurement
\* having answered the default size with no overflow; the item is marked
\* expanded, the size is assigned to it when the expand is applied, no
\* measurement container is left behind and no error is raised
MissingHandleGivesFixedExpansion ==
  /\ ExpandedWithoutHandle
       => /\ lastOp.pos = IF lastOp.element
                            THEN Point(RoundDiv(STICKY_NOTE_WIDTH * 14, 10),
                                       RoundDiv(STICKY_NOTE_HEIGHT * 14, 10))
                            ELSE Point(RoundDiv(STICKY_NOTE_WIDTH * 15, 10),
                                       RoundDiv(STICKY_NOTE_HEIGHT * 15, 10))
          /\ items[lastOp.id].expanded
          /\ items[lastOp.id].width = lastOp.pos.x
          /\ items[lastOp.id].height = lastOp.pos.y
          /\ ~fault
  /\ \A m \in {NoMeasurement, BareCard} :
       /\ measureContentHeight(m) = [requiredHeight |-> STICKY_NOTE_HEIGHT,
                                     requiredWidth |-> STICKY_NOTE_WIDTH,
                                     hasOverflow |-> FALSE]
       /\ \A atRead \in BOOLEAN : MeasureContainersLeft(m, FALSE, atRead) = 0

\* a collapsed item was expanded while its card element had no content
\* container, and was given 392 x 448
ExpandedBareCard ==
  /\ ExpandedWithoutHandle
  /\ lastOp.element
  /\ items[lastOp.id].width = 392
  /\ items[lastOp.id].height = 448

----------------------------------------------------------------------------
(* The measurement container *)

\* C20: outside a measurement no measurement container is attached to the
\* document, also after a measurement that raised an exception
NoMeasurementContainerLeft == measureNodes = 0

----------------------------------------------------------------------------
(* Auto-focus on load *)

MaxAutoFocusSteps == 2

\* setTimeout(.., isMobile ? 1000 : 1500)
AutoFocusDelay(mobile) == IF mobile THEN 1000 ELSE 1500

\* faulty variant of hasAutoFocused: the ref is never read as set
hasAutoFocused_Never(latched) == FALSE

\* hasAutoFocusedRef.current as the effect reads it
hasAutoFocused(latched) == latched

\* The auto-focus effect of the last commit.  The cleanup returned by the run
\* that set the timer clears it; the body sets the latch and a new timer when
\* the rendered list has items and the latch is not set.
AutoFocusEffect ==
  /\ autoFocus.due
  /\ LET arm == Len(rendered.items) > 0 /\ ~hasAutoFocused(autoFocus.latched)
     IN autoFocus' = [latched |-> autoFocus.latched \/ arm,
                      timer |-> IF arm THEN AutoFocusDelay(rendered.isMobile) ELSE NoTimer,
                      seen |-> IF arm THEN [items |-> rendered.items, isMobile |-> rendered.isMobile]
                                      ELSE NoAutoFocus.seen,
                      calls |-> autoFocus.calls,
                      due |-> FALSE]
  /\ UNCHANGED <<envVars, mounted, dirty, rendered, viewVars, gestVars, itemVars, cardVars,
                 currentIndex, histVars>>

\* the auto-focus timer fires: focusOnCard(0) of the render the effect ran in
AutoFocusTimer ==
  /\ autoFocus.timer = 0
  /\ autoFocus' = [autoFocus EXCEPT !.timer = NoTimer, !.seen = NoAutoFocus.seen, !.calls = @ + 1]
  /\ focusOnCardOf(autoFocus.seen, 0, "autoFocus")

AutoFocusContents == {[n |-> 0, seed |-> 0], [n |-> 2, seed |-> 0]}

AutoFocusEnabled == mounted /\ steps < MaxAutoFocusSteps

InitAutoFocus == InitWith(AutoFocusContents) /\ hover.at = ViewportCenter(window)

\* the passive effects of a commit run before the next render
NextAutoFocus ==
  \/ MountEffects
  \/ ~autoFocus.due /\ Render
  \/ AutoFocusEffect
  \/ AutoFocusTimer
  \/ AnimationFrame
  \/ \E d \in {ThrottleDelay} \cup TimerLefts : Tick(d)
  \/ TransitionEnd
  \/ \E t \in zoomFitTimers : handleZoomToFit(t)
  \/ AutoFocusEnabled /\ handleZoomIn
  \/ AutoFocusEnabled /\ ~rendered.isMobile /\ handleWheelPan(100, 0)
  \/ AutoFocusEnabled /\ \E id \in Cards : handleExpand(id, ShortCard)
  \/ AutoFocusEnabled /\ \E win \in Viewports : handleResize(win)

SpecAutoFocus == InitAutoFocus /\ [][NextAutoFocus]_vars

\* C17: within one mount the auto-focus call focusOnCard(0) is made at most
\* once, whatever changes of the items, the transform or the focusOnCard
\* callback follow it, and a timer is never pending after the call
AutoFocusAtMostOnce ==
  /\ autoFocus.calls <= 1
  /\ autoFocus.calls = 1 => autoFocus.latched /\ autoFocus.timer = NoTimer

\* the auto-focus call was made, the view was panned or zoomed or an item
\* expanded afterwards, and the effect has run again on the new callback
AutoFocusedThenChanged ==
  /\ autoFocus.calls = 1
  /\ lastOp.name \in {"zoomIn", "wheelPan", "expand", "resize"}
  /\ ~dirty
  /\ ~autoFocus.due

\* Scheduling: effects, renders, animation frames and due timers are not
\* postponed forever, and time moves on to the next timer's deadline.
AutoFocusFairness ==
  /\ WF_vars(MountEffects)
  /\ WF_vars(~autoFocus.due /\ Render)
  /\ WF_vars(AutoFocusEffect)
  /\ WF_vars(AutoFocusTimer)
  /\ WF_vars(AnimationFrame)
  /\ WF_vars(TransitionEnd)
  /\ WF_vars(\E t \in zoomFitTimers : handleZoomToFit(t))
  /\ WF_vars(\E d \in TimerLefts : Tick(d))

SpecAutoFocusFair == InitAutoFocus /\ [][NextAutoFocus]_vars /\ AutoFocusFairness

\* C18: once the item list is non-empty after mount, focusOnCard(0) is
\* eventually called by the auto-focus timer, also when the transform or the
\* items are updated during the delay
AutoFocusEventuallyFires ==
  (mounted /\ Len(items) > 0) ~> (autoFocus.calls > 0)

----------------------------------------------------------------------------
(* Card size bounds *)

MaxSizeSteps == 2
MaxExtent == 2000
MaxTextLength == 1000

\* what a card can show: scrollHeight and scrollWidth of the measurement
\* container, the length of its <pre> text and of all its text, around the
\* thresholds of the sizing engine
SizeMeasurements ==
  {NoMeasurement, ThrowingCard} \cup
  [element : {TRUE}, container : BOOLEAN,
   naturalHeight : {0, 257, 737, MaxExtent},
   naturalWidth : {0, 249, 469, MaxExtent},
   preLength : {0, 201},
   textLength : {0, 401, 667, MaxTextLength},
   throws : {FALSE}]

InitSize == InitWith({[n |-> 1, seed |-> 1]}) /\ hover.at = ViewportCenter(window)

NextSize ==
  \/ MountEffects
  \/ Render
  \/ AnimationFrame
  \/ \E d \in {ThrottleDelay} \cup TimerLefts : Tick(d)
  \/ \E t \in zoomFitTimers : handleZoomToFit(t)
  \/ mounted /\ steps < MaxSizeSteps /\ \E id \in Cards, m \in SizeMeasurements : handleExpand(id, m)

SpecSize == InitSize /\ [][NextSize]_vars

\* C21: every item's width lies in [MIN_WIDTH, MAX_WIDTH] and its height in
\* [MIN_HEIGHT, MAX_HEIGHT], whatever was measured and whatever sequence of
\* expands and collapses was applied
SizeBounds ==
  \A i \in DOMAIN items :
    /\ STICKY_NOTE_MIN_WIDTH <= items[i].width
    /\ items[i].width <= STICKY_NOTE_MAX_WIDTH
    /\ STICKY_NOTE_MIN_HEIGHT <= items[i].height
    /\ items[i].height <= STICKY_NOTE_MAX_HEIGHT

\* an expand with a measured card has given an item the largest size
ExpandedToMaxSize ==
  /\ lastOp.name = "expand"
  /\ lastOp.id \in DOMAIN items
  /\ lastOp.element /\ lastOp.container
  /\ items[lastOp.id].expanded
  /\ items[lastOp.id].width = STICKY_NOTE_MAX_WIDTH
  /\ items[lastOp.id].height = STICKY_NOTE_MAX_HEIGHT

----------------------------------------------------------------------------
(* Content updates and the frame of the item state *)

MaxContentSteps == 3

ContentSets == {[n |-> 1, seed |-> 1], [n |-> 2, seed |-> 0]}

\* The content props (albums, snips, playlists) are replaced by new arrays
\* while no press is in progress.  initializeItems is a new callback, so its
\* effect runs again: setItems(calculateInitialLayout(initialItems)).  The
\* cards of the new list that had no CardWrapper before start with fresh state.
ContentUpdate(c) ==
  /\ mounted
  /\ pressed = {} /\ ~touching /\ longPressTimers = {} /\ dragState.itemId = NoItem
  /\ content' = c
  /\ items' = calculateInitialLayout(c.n, c.seed)
  /\ itemsSet' = TRUE
  /\ dirty' = TRUE
  /\ longPressTimeout' = [k \in 1..Max(c.n, content.n) |->
                            IF k <= Min(c.n, content.n) THEN longPressTimeout[k] ELSE NoTimer]
  /\ isInteracting' = [k \in 1..Max(c.n, content.n) |->
                         IF k <= Min(c.n, content.n) THEN isInteracting[k] ELSE FALSE]
  /\ steps' = steps + 1
  /\ lastOp' = Op("contentUpdate", c.n, Point(0, 0), TRUE)
  /\ UNCHANGED <<window, uaMobile, hover, pressed, touching, measureNodes, mounted, rendered,
                 autoFocus, viewVars, gestVars, dragging, dragState, listening, longPressTimers,
                 nextTimerId, navigatedTo, currentIndex, fault, dragOrigin>>

InitContent ==
  /\ InitWith(ContentSets)
  /\ window.innerWidth = 1280
  /\ hover.at = ViewportCenter(window)

NextContent ==
  \/ MountEffects
  \/ Render
  \/ AnimationFrame
  \/ \E d \in TimerLefts : Tick(d)
  \/ TransitionEnd
  \/ \E t \in longPressTimers : handleLongPress(t)
  \/ mounted /\ steps < MaxContentSteps /\ \E c \in ContentSets : ContentUpdate(c)
  \/ mounted /\ steps < MaxContentSteps /\ MouseDown(0)
  \/ mounted /\ steps < MaxContentSteps /\ \E target \in {Canvas} \cup Cards, pos \in ClientPoints(window) :
       MouseMove(target, pos)
  \/ mounted /\ steps < MaxContentSteps /\ MouseUp(0)
  \/ mounted /\ steps < MaxContentSteps /\ \E id \in Cards : handleExpand(id, TallCard)
  \/ mounted /\ steps < MaxContentSteps /\ handleKeyPress("ArrowRight")
  \/ mounted /\ steps < MaxContentSteps /\ handleZoomIn
  \/ mounted /\ steps < MaxContentSteps /\ handleWheelPan(100, 0)
  \/ mounted /\ steps < MaxContentSteps /\ \E win \in Viewports : handleResize(win)

SpecContent == InitContent /\ [][NextContent]_vars

\* the step is a content update
ContentStep == steps' # steps /\ lastOp'.name = "contentUpdate"

\* The step keeps the list as long as it was and changes the position record
\* of item i at most as a drag move (x, y of the dragged item) or as an expand
\* toggle (width, height, expanded of its target) may.
KeepsItemFrame ==
  /\ Len(items') = Len(items)
  /\ \A i \in DOMAIN items :
       /\ items'[i].rotation = items[i].rotation
       /\ items'[i].z = items[i].z
       /\ (items'[i].x # items[i].x \/ items'[i].y # items[i].y)
            => /\ lastOp'.name = "mouseMove"
               /\ steps' # steps
               /\ dragState.itemId = i
               /\ items'[i] = [items[i] EXCEPT !.x = items'[i].x, !.y = items'[i].y]
       /\ (items'[i].width # items[i].width \/ items'[i].height # items[i].height
             \/ items'[i].expanded # items[i].expanded)
            => /\ lastOp'.name = "expand"
               /\ steps' # steps
               /\ lastOp'.id = i
               /\ items'[i].x = items[i].x /\ items'[i].y = items[i].y

----------------------------------------------------------------------------
(* Determinism of the layout *)

\* C23: a second run of calculateInitialLayout on the same list and column
\* count, whatever Math.random returns in it, yields the x, y, z and rotation
\* the first run gave to every item
LayoutDeterministic ==
  mounted =>
    \A seed \in 0..2 :
      LET again == calculateInitialLayoutColumns(content.n, LayoutColumns, seed)
      IN \A i \in DOMAIN items :
           /\ again[i].x = items[i].x
           /\ again[i].y = items[i].y
           /\ again[i].z = items[i].z
           /\ again[i].rotation = items[i].rotation

----------------------------------------------------------------------------
(* The canvas gesture recognizer *)

\* C24: the recognizer (isDragging) enters dragging only on a pointer-down
\* with button 0 or a touch-start, is idle after every pointer-up and every
\* pointer-leave, stays idle on a pointer-down with another button, and a
\* move received while idle changes neither the transform nor lastMousePos
GestureStateMachine ==
  /\ [][(~isDragging /\ isDragging')
          => /\ steps' # steps
             /\ \/ lastOp'.name = "mouseDown" /\ 0 \in pressed' \ pressed
                \/ lastOp'.name = "touchStart"]_vars
  /\ [][(steps' # steps /\ lastOp'.name \in {"mouseUp", "touchEnd"}) => ~isDragging']_vars
  /\ [][(steps' # steps /\ lastOp'.name = "mouseMove" /\ hover.over # Outside
           /\ hover'.over = Outside) => ~isDragging']_vars
  /\ [][(steps' # steps /\ lastOp'.name \in {"mouseMove", "touchMove"} /\ ~isDragging)
          => transform' = transform /\ lastMousePos' = lastMousePos]_vars

\* the part of C24 about pointer-up alone
IdleAfterPointerUp ==
  [][(steps' # steps /\ lastOp'.name = "mouseUp") => ~isDragging']_vars

----------------------------------------------------------------------------
(* The pan box *)

InPanBox(T, win) ==
  /\ -2 * win.innerWidth <= T.x /\ T.x <= 2 * win.innerWidth
  /\ -2 * win.innerHeight <= T.y /\ T.y <= 2 * win.innerHeight

\* the bound of [-limit, limit] nearest to a requested coordinate
NearestInBox(requested, limit) ==
  IF requested > limit THEN limit ELSE IF requested < -limit THEN -limit ELSE requested

\* C25: every applied updateTransform leaves x within two viewport widths and
\* y within two viewport heights of zero, the viewport being the one at apply
\* time, and an applied wheel pan that requests a point outside the box is
\* stored at the nearest bound
PanBounds ==
  /\ [][(transform' # transform \/ (transformSet' /\ ~transformSet))
          => InPanBox(transform', window')]_vars
  /\ [][(steps' # steps /\ lastOp'.name = "wheelPan" /\ lastOp'.applied)
          => LET requested == WheelPanTarget(rendered.transform, transform,
                                             lastOp'.pos.x, lastOp'.pos.y)
             IN /\ transform'.x = NearestInBox(requested.x, 2 * window.innerWidth)
                /\ transform'.y = NearestInBox(requested.y, 2 * window.innerHeight)
                /\ fault' = fault]_vars

\* a wheel pan that asked for a point left of the box has been applied
PanClampedAtBound ==
  /\ lastOp.name = "wheelPan"
  /\ lastOp.applied
  /\ transform.x = -2 * window.innerWidth
  /\ rendered.transform.x - RoundDiv(lastOp.pos.x * 2500, rendered.transform.scale)
       < -2 * window.innerWidth

----------------------------------------------------------------------------
(* The toolbar zoom buttons *)

\* what handleZoomIn and handleZoomOut store when their closure holds T
ZoomInResult(T, win) ==
  ClampTransform(ZoomTarget(T, ZoomInScale(T), ViewportCenter(win), win), win)
ZoomOutResult(T, win) ==
  ClampTransform(ZoomTarget(T, ZoomOutScale(T), ViewportCenter(win), win), win)

\* an applied click on a zoom button of a render that shows the current transform
ZoomButtonStep(name) ==
  /\ steps' # steps
  /\ lastOp'.name = name
  /\ lastOp'.applied

----------------------------------------------------------------------------
(* Panning the canvas with the pointer *)

\* C27: during a canvas drag at constant scale and away from the pan box,
\* every move adds the pointer's travel since the previous pointer position,
\* divided by the scale, to (x, y); the sum over the moves of one drag is then
\* (latest position - pointer-down position) / scale, however the moves fall
\* between renders
PanTracksPointer ==
  [][(/\ steps' # steps
      /\ lastOp'.name = "mouseMove"
      /\ isDragging /\ rendered.isDragging /\ ~rendered.isMobile
      /\ hover.over # Outside /\ hover'.over # Outside
      /\ rendered.transform.scale = transform.scale
      /\ transform'.scale = transform.scale
      /\ PanClampFree(transform', window))
     => /\ transform'.x - transform.x
             = RoundDiv((hover'.at.x - hover.at.x) * ScaleUnit, transform.scale)
        /\ transform'.y - transform.y
             = RoundDiv((hover'.at.y - hover.at.y) * ScaleUnit, transform.scale)]_vars

----------------------------------------------------------------------------
(* The focus cursor and the item list *)

\* C28: whenever the item list is non-empty, currentIndex is an index of it
\* (0 <= currentIndex < items.length), so items[currentIndex] is defined
FocusCursorValid ==
  Len(items) > 0 => (0 <= currentIndex /\ currentIndex < Len(items))

----------------------------------------------------------------------------
(* The focus cursor and the camera *)

\* C29: every focusOnCard call on a non-empty list that sets currentIndex to
\* k also stores the animated transform that targets item k: the scale is
\* the focus zoom level, (x, y) centre item k and isTransitioning is set, on
\* pointer-primary and touch-primary devices, whatever the time since the
\* last transform update
FocusIndexAndCameraInStep ==
  [][(/\ steps' # steps
      /\ lastOp'.name \in FocusOps
      /\ Len(rendered.items) > 0
      /\ fault' = fault)
     => LET card == rendered.items[currentIndex' + 1]
        IN /\ transform' = ClampTransform(FocusTarget(card, getZoomLevel), window)
           /\ transform'.scale = getZoomLevel
           /\ isTransitioning']_vars

----------------------------------------------------------------------------
(* Zoom-to-fit after an expand *)

MaxZoomFitSteps == 3

ZoomFitContents == {[n |-> 1, seed |-> 1]}

InitZoomFit == InitWith(ZoomFitContents) /\ hover.at = ViewportCenter(window)

\* pending renders and animation frames run before the clock moves on to the
\* next timer deadline
NextZoomFit ==
  \/ MountEffects
  \/ Render
  \/ AnimationFrame
  \/ ~dirty /\ rafQueue = << >> /\ \E d \in {ThrottleDelay} \cup TimerLefts : Tick(d)
  \/ TransitionEnd
  \/ \E t \in zoomFitTimers : handleZoomToFit(t)
  \/ mounted /\ steps < MaxZoomFitSteps /\ \E id \in Cards, m \in {NoMeasurement, TallCard} : handleExpand(id, m)
  \/ mounted /\ steps < MaxZoomFitSteps /\ handleKeyPress("ArrowRight")
  \/ mounted /\ steps < MaxZoomFitSteps /\ centerView

SpecZoomFit == InitZoomFit /\ [][NextZoomFit]_vars

\* the zoom-to-fit timers set by a step
NewZoomFitTimers == {t \in zoomFitTimers' \ zoomFitTimers : t.left = ZoomFitDelay}

\* the zoom-to-fit callback runs in a step
ZoomToFitStep == Cardinality(zoomFitTimers') < Cardinality(zoomFitTimers)

\* an item goes from collapsed to expanded on a touch-primary device, with a
\* card element
MobileExpandStep ==
  /\ steps' # steps
  /\ lastOp'.name = "expand"
  /\ lastOp'.id \in DOMAIN items
  /\ ~items[lastOp'.id].expanded /\ items'[lastOp'.id].expanded
  /\ lastOp'.element
  /\ IsMobile(uaMobile, window)

\* C30: the zoom-to-fit callback is scheduled exactly by the expands of a
\* collapsed item on a touch-primary device with a card element, runs
\* ZoomFitDelay (400 ms) later, and never increases transform.scale
ZoomToFitOnlyZoomsOut ==
  /\ [][NewZoomFitTimers # {} => MobileExpandStep]_vars
  /\ [][MobileExpandStep => \E t \in zoomFitTimers' : t.item = lastOp'.id /\ t.left = ZoomFitDelay]_vars
  /\ [][ZoomToFitStep => \E t \in zoomFitTimers \ zoomFitTimers' : t.left = 0]_vars
  /\ [][ZoomToFitStep => transform'.scale <= transform.scale]_vars

====
